---- MODULE Spec2Model ----
(***************************************************************************)
(* RolesPage.component.tsx: the Roles administration page.                 *)
(*                                                                         *)
(* The component's useState cells are the variables; every event handler   *)
(* and every promise continuation (then / catch / finally of one request)  *)
(* is one action.  The REST collaborators (getRoles, getRoleByName,        *)
(* getPolicy, createRole, updateRole, updatePolicy) are the environment:   *)
(* a request stays in `inflight` until the environment resolves it, with   *)
(* success or with failure, in any order.                                  *)
(*                                                                         *)
(* JavaScript strings that the code trims, lower-cases or measures (role   *)
(* name, display name) are tuples of one-character strings; all other      *)
(* strings are TLA+ strings.  An optional property is a record field that  *)
(* may be absent; `undefined` state is the record Undefined.               *)
(***************************************************************************)
EXTENDS Integers, Sequences, FiniteSets, Bags, TLC

VARIABLES
    roles,            \* useState<Array<Role>>([])
    currentRole,      \* useState<Role>()
    currentPolicy,    \* useState<Policy>()
    error,            \* useState<string>('')
    currentTab,       \* useState<number>(1)
    isLoading,        \* useState<boolean>(false)
    isLoadingPolicy,  \* useState<boolean>(false)
    isAddingRole,     \* useState<boolean>(false)
    isAddingRule,     \* useState<boolean>(false)
    errorData,        \* useState<FormErrorData>()
    isEditable,       \* useState<boolean>(false)
    deletingRule,     \* useState({rule: undefined, state: false})
    editingRule,      \* useState({rule: undefined, state: false})
    inflight,         \* bag of the requests issued and not yet resolved
    issued,           \* requests issued by the latest step
    toasts,           \* bodies passed to showToast by the latest step
    last              \* the handler or continuation that ran in the latest step
                      \* (with the rejection it received, for fetchCurrentRole,
                      \* and the form data it received, for the validations)

state == <<roles, currentRole, currentPolicy, error, currentTab, isLoading,
           isLoadingPolicy, isAddingRole, isAddingRule, errorData, isEditable,
           deletingRule, editingRule>>
vars == <<roles, currentRole, currentPolicy, error, currentTab, isLoading,
          isLoadingPolicy, isAddingRole, isAddingRule, errorData, isEditable,
          deletingRule, editingRule, inflight, issued, toasts, last>>

(***************************************************************************)
(* Bounds of the exploration.                                              *)
(***************************************************************************)
MaxInFlight == 2   \* user events are explored while fewer requests are pending
MaxRules == 2      \* createRule is explored while the policy has fewer rules

(***************************************************************************)
(* Program constants.                                                      *)
(***************************************************************************)
MaxNameLength == 128
PolicyTab == 1
UsersTab == 2

Undefined == [undefined |-> TRUE]
NoRule == [rule |-> Undefined, state |-> FALSE]
EmptyMapping == << >>
ERROR404 == "No data found"

(***************************************************************************)
(* Strings as tuples of characters.                                        *)
(***************************************************************************)
RECURSIVE TrimStart(_)
TrimStart(s) == IF s # << >> /\ Head(s) = " " THEN TrimStart(Tail(s)) ELSE s

RECURSIVE TrimEnd(_)
TrimEnd(s) ==
    IF s # << >> /\ s[Len(s)] = " " THEN TrimEnd(SubSeq(s, 1, Len(s) - 1)) ELSE s

trim(s) == TrimEnd(TrimStart(s))

LowerChar(c) ==
    CASE c = "A" -> "a" [] c = "D" -> "d" [] c = "E" -> "e" [] c = "I" -> "i"
      [] c = "M" -> "m" [] c = "N" -> "n" [] c = "Q" -> "q" [] c = "V" -> "v"
      [] c = "X" -> "x" [] OTHER -> c

toLower(s) == [i \in 1..Len(s) |-> LowerChar(s[i])]

Repeat(c, n) == [i \in 1..n |-> c]

(***************************************************************************)
(* The data the environment and the user can supply.                       *)
(***************************************************************************)
admin == <<"a", "d", "m", "i", "n">>
dev == <<"d", "e", "v">>

Descriptions == {"d0", "d1"}

\* A role as deserialised from a response.  ref stands for the identity of
\* the JavaScript object: "list" for the objects of the array held in roles,
\* "other" for an object that is not an element of that array (every
\* response is deserialised into new objects).
RoleObject(name, description, ref) ==
    [id |-> IF name = admin THEN "r1" ELSE "r2",
     name |-> name,
     displayName |-> IF name = admin THEN <<"A", "d", "m", "i", "n">> ELSE <<"D", "e", "v">>,
     description |-> description,
     policy |-> [id |-> IF name = admin THEN "p1" ELSE "p2"],
     ref |-> ref]

RoleNameOfId(id) == IF id = "r1" THEN admin ELSE dev

\* The role lists getRoles can return: the names in the order the server
\* lists them.
RoleNameLists == {<< >>, <<admin, dev>>}

RoleLists ==
    {[i \in 1..Len(names) |-> RoleObject(names[i], "d0", "list")] :
        names \in RoleNameLists}

PolicyNameOfId(id) == IF id = "p1" THEN "P1" ELSE "P2"
PolicyIdOfName(name) == IF name = "P1" THEN "p1" ELSE "p2"
PolicyType == "AccessControl"

Operations == {"UpdateTags", "UpdateOwner"}

RoleNameOfPolicy(policyName) == IF policyName = "P1" THEN admin ELSE dev

RuleObject(name, operation, allow, enabled, userRoleAttr) ==
    [name |-> name, operation |-> operation, allow |-> allow, enabled |-> enabled,
     userRoleAttr |-> userRoleAttr]

\* The rule lists a stored policy can have when it is first fetched.
ServerRuleLists(policyName) ==
    LET r == RoleNameOfPolicy(policyName)
        a == RuleObject(policyName \o "-UpdateTags", "UpdateTags", TRUE, TRUE, r)
        b == RuleObject(policyName \o "-UpdateOwner", "UpdateOwner", TRUE, FALSE, r)
        c == RuleObject(policyName \o "-UpdateTags", "UpdateOwner", FALSE, TRUE, r)
        d == RuleObject(policyName \o "-custom", "UpdateTags", FALSE, FALSE, r)
    IN  {<< >>, <<a, b>>, <<a, c>>, <<a, d>>}

PolicyObject(id, rules) ==
    [id |-> id, name |-> PolicyNameOfId(id), policyType |-> PolicyType, rules |-> rules]

\* Rejections of a request: a transport failure without a response, and a
\* server error whose payload carries a code and a message.
NetworkError == [message |-> "Network Error"]
ServerError ==
    [message |-> "Request failed with status code 404",
     response |-> [data |-> [code |-> 404, message |-> "Entity not found"]]]
Errors == {NetworkError, ServerError}

\* What the add-role form can hand to onChange / onSave.
CandidateRole(name, displayName) ==
    [name |-> name, description |-> "", displayName |-> displayName]

CandidateRoles ==
    {CandidateRole(n, <<"X">>) :
        n \in {<< >>, <<" ">>, admin, <<"A", "d", "m", "i", "n">>, <<"q", "a">>,
               <<" ", "q", "a">>, Repeat("x", MaxNameLength + 1)}}
    \cup {CandidateRole(<<"q", "a">>, d) :
        d \in {<< >>, <<" ">>, Repeat("x", MaxNameLength), Repeat("x", MaxNameLength + 1)}}
    \cup {CandidateRole(<< >>, << >>), [name |-> <<"q", "a">>, description |-> ""]}

\* What the add-rule form can hand to onChange / onSave ('' is no operation).
CandidateRules ==
    {[name |-> "", operation |-> op, allow |-> a, enabled |-> TRUE] :
        op \in Operations \cup {""}, a \in {TRUE}}

(***************************************************************************)
(* Validation (lines 85-124).                                              *)
(***************************************************************************)
Mapping(name, displayName) ==
    [k \in (IF name = "" THEN {} ELSE {"name"})
           \cup (IF displayName = "" THEN {} ELSE {"displayName"}) |->
        IF k = "name" THEN name ELSE displayName]

\* variant: the names are compared as they are written
NameExistsExact(name, roleList) ==
    \E i \in 1..Len(roleList) : roleList[i].name = name

\* roles.find((item) => toLower(item.name) === toLower(data.name)) is defined
NameExists(name, roleList) ==
    \E i \in 1..Len(roleList) : toLower(roleList[i].name) = toLower(name)

\* errData['name'] of lines 88-98 ("" when no entry is written)
NameError(data, roleList) ==
    IF trim(data.name) = << >> THEN "Name is required"
    ELSE IF NameExists(data.name, roleList) THEN "Name already exists"
    ELSE IF Len(data.name) < 1 \/ Len(data.name) > MaxNameLength
         THEN "Name size must be between 1 and 128"
    ELSE ""

\* errData['displayName'] of lines 99-103 ("" when no entry is written)
DisplayNameError(data) ==
    IF "displayName" \notin DOMAIN data \/ trim(data.displayName) = << >>
    THEN "Display name is required"
    ELSE IF Len(data.displayName) < 1 \/ Len(data.displayName) > MaxNameLength
         THEN "Display name size must be between 1 and 128"
    ELSE ""

\* variant: the checks are not gated
ExecutesAlways(forceSet) == TRUE

\* if (errorData || forceSet): an empty mapping is an object, hence truthy
Executes(forceSet) == errorData # Undefined \/ forceSet

\* the value onNewDataChange returns
onNewDataChange(data, forceSet) ==
    IF Executes(forceSet)
    THEN Mapping(NameError(data, roles), DisplayNameError(data))
    ELSE EmptyMapping

\* the value validateRuleData returns
validateRuleData(data, forceSet) ==
    IF Executes(forceSet)
    THEN IF data.operation = "" THEN [operation |-> "Operation is required."]
         ELSE EmptyMapping
    ELSE EmptyMapping

\* errorData after either validation: setErrorData(errData) only when it executes
ErrorDataAfter(errData, forceSet) ==
    IF Executes(forceSet) THEN errData ELSE errorData

\* variant: the result of the validation is not looked at
NoErrorsUnchecked(errData) == TRUE

\* !Object.values(errData).length
NoErrors(errData) == DOMAIN errData = {}

(***************************************************************************)
(* What is rendered, hence which handlers the user can reach (516-661).    *)
(***************************************************************************)
PageShown == error = ""
BodyShown == PageShown /\ ~isLoading
RoleShown == BodyShown /\ Len(roles) > 0
DisplayedRules == IF currentPolicy = Undefined THEN << >> ELSE currentPolicy.rules
RuleTableShown ==
    RoleShown /\ currentTab = PolicyTab /\ ~isLoadingPolicy /\ Len(DisplayedRules) > 0
AddRoleModalShown == BodyShown /\ isAddingRole
AddRuleModalShown == BodyShown /\ isAddingRule
EditRuleModalShown == BodyShown /\ editingRule.state
DeleteRuleModalShown == BodyShown /\ deletingRule.state

CanIssue == BagCardinality(inflight) < MaxInFlight

(***************************************************************************)
(* Requests.                                                               *)
(***************************************************************************)
\* the pending requests once req has been resolved and calls have been issued
Resolve(req) == inflight (-) SetToBag({req})

RECURSIVE Issue(_, _)
Issue(pending, calls) ==
    IF calls = << >> THEN pending
    ELSE Issue(pending (+) SetToBag({Head(calls)}), Tail(calls))

GetRoles == [api |-> "getRoles"]
GetPolicy(id) == [api |-> "getPolicy", id |-> id]
GetRoleByName(name, rolesLength) ==
    [api |-> "getRoleByName", name |-> name, rolesLength |-> rolesLength]
CreateRole(data) == [api |-> "createRole", data |-> data]
UpdateRole(id, jsonPatch, rolesLength) ==
    [api |-> "updateRole", id |-> id, jsonPatch |-> jsonPatch,
     rolesLength |-> rolesLength]
UpdatePolicy(updatedPolicy, handler, ruleName) ==
    [api |-> "updatePolicy", policy |-> updatedPolicy, handler |-> handler,
     ruleName |-> ruleName]

Pending(api) == {req \in BagToSet(inflight) : req.api = api}

IssuedApi(api) == SelectSeq(issued, LAMBDA r : r.api = api)

\* variant: the dependency is compared by value
EffectRunsByValue(old, new, fresh) == new # old

\* useEffect(..., [currentRole]) (510-514) runs when the reference changed:
\* new is an object deserialised in this step (fresh), or another object
\* than old
EffectRuns(old, new, fresh) == (fresh /\ new # Undefined) \/ new # old

\* the requests the effect issues after a render in which currentRole went
\* from old to new
PolicyEffect(old, new, fresh) ==
    IF EffectRuns(old, new, fresh) /\ new # Undefined
    THEN <<GetPolicy(new.policy.id)>>
    ELSE << >>

(***************************************************************************)
(* Initial state: the useState defaults (63-83) after the mount effect     *)
(* (506-508) has called fetchRoles.                                        *)
(***************************************************************************)
Init ==
    /\ roles = << >>
    /\ currentRole = Undefined
    /\ currentPolicy = Undefined
    /\ error = ""
    /\ currentTab = PolicyTab
    /\ isLoading = TRUE
    /\ isLoadingPolicy = FALSE
    /\ isAddingRole = FALSE
    /\ isAddingRule = FALSE
    /\ errorData = Undefined
    /\ isEditable = FALSE
    /\ deletingRule = NoRule
    /\ editingRule = NoRule
    /\ inflight = SetToBag({GetRoles})
    /\ issued = <<GetRoles>>
    /\ toasts = << >>
    /\ last = [op |-> "mount"]

(***************************************************************************)
(* Role list and role selection.                                           *)
(***************************************************************************)
\* variant: the selected role is kept when the returned list still has it
CurrentRoleKept(data) ==
    IF currentRole # Undefined
       /\ \E i \in 1..Len(data) : data[i].name = currentRole.name
    THEN data[CHOOSE i \in 1..Len(data) : data[i].name = currentRole.name]
    ELSE IF data = << >> THEN Undefined ELSE data[1]

\* what setCurrentRole receives in the then of fetchRoles (158): data[0]
CurrentRoleAfterRoles(data) == IF data = << >> THEN Undefined ELSE data[1]

\* fetchRoles, then + finally (155-159, 167), and the effect on currentRole
GetRolesResolved(req, data) ==
    LET first == CurrentRoleAfterRoles(data)
        effect == PolicyEffect(currentRole, first, TRUE)
    IN  /\ roles' = data
        /\ currentRole' = first
        /\ isLoadingPolicy' = IF effect # << >> THEN TRUE ELSE isLoadingPolicy
        /\ isLoading' = FALSE
        /\ inflight' = Issue(Resolve(req), effect)
        /\ issued' = effect
        /\ toasts' = << >>
        /\ last' = [op |-> "getRoles.then"]
        /\ UNCHANGED <<currentPolicy, error, currentTab, isAddingRole, isAddingRule,
                       errorData, isEditable, deletingRule, editingRule>>

\* what setError receives in fetchRoles' catch
RolesError == "Error while getting roles"

\* fetchRoles, catch + finally (160-167)
GetRolesRejected(req) ==
    /\ error' = RolesError
    /\ isLoading' = FALSE
    /\ inflight' = Resolve(req)
    /\ issued' = << >>
    /\ toasts' = <<"Error while getting roles">>
    /\ last' = [op |-> "getRoles.catch"]
    /\ UNCHANGED <<roles, currentRole, currentPolicy, currentTab, isLoadingPolicy,
                   isAddingRole, isAddingRule, errorData, isEditable, deletingRule,
                   editingRule>>

\* onClick of a role of the left panel (378), and the effect on currentRole
RoleClick(i) ==
    LET effect == PolicyEffect(currentRole, roles[i], FALSE)
    IN  /\ PageShown
        /\ CanIssue
        /\ currentRole' = roles[i]
        /\ isLoadingPolicy' = IF effect # << >> THEN TRUE ELSE isLoadingPolicy
        /\ inflight' = Issue(inflight, effect)
        /\ issued' = effect
        /\ toasts' = << >>
        /\ last' = [op |-> "roleClick"]
        /\ UNCHANGED <<roles, currentPolicy, error, currentTab, isLoading, isAddingRole,
                       isAddingRule, errorData, isEditable, deletingRule, editingRule>>

\* the policy a getPolicy response carries
PolicyResponse(id, rules) == PolicyObject(id, rules)

\* variant: the response of a superseded fetch is dropped
PolicyAfterFetchIfCurrent(res) ==
    IF currentRole # Undefined /\ res.data.id = currentRole.policy.id
    THEN res.data
    ELSE currentPolicy

\* what the then of fetchPolicy stores (141)
PolicyAfterFetch(res) == res.data

\* fetchPolicy, then + finally (140-142, 149)
GetPolicyResolved(req, rules) ==
    LET res == [data |-> PolicyResponse(req.id, rules)]
    IN  /\ currentPolicy' = PolicyAfterFetch(res)
        /\ isLoadingPolicy' = FALSE
        /\ inflight' = Resolve(req)
        /\ issued' = << >>
        /\ toasts' = << >>
        /\ last' = [op |-> "getPolicy.then"]
        /\ UNCHANGED <<roles, currentRole, error, currentTab, isLoading, isAddingRole,
                       isAddingRule, errorData, isEditable, deletingRule, editingRule>>

\* fetchPolicy, catch + finally (143-149)
GetPolicyRejected(req) ==
    /\ isLoadingPolicy' = FALSE
    /\ inflight' = Resolve(req)
    /\ issued' = << >>
    /\ toasts' = <<"Error while getting policy">>
    /\ last' = [op |-> "getPolicy.catch"]
    /\ UNCHANGED <<roles, currentRole, currentPolicy, error, currentTab, isLoading,
                   isAddingRole, isAddingRule, errorData, isEditable, deletingRule,
                   editingRule>>

\* the tab buttons (327-341)
TabClick(tab) ==
    /\ RoleShown
    /\ currentTab' = tab
    /\ issued' = << >>
    /\ toasts' = << >>
    /\ last' = [op |-> "tabClick"]
    /\ UNCHANGED <<roles, currentRole, currentPolicy, error, isLoading, isLoadingPolicy,
                   isAddingRole, isAddingRule, errorData, isEditable, deletingRule,
                   editingRule, inflight>>

(***************************************************************************)
(* Role creation.                                                          *)
(***************************************************************************)
\* the add-role buttons (362-365, 589-592)
AddRoleClick ==
    /\ PageShown
    /\ errorData' = Undefined
    /\ isAddingRole' = TRUE
    /\ issued' = << >>
    /\ toasts' = << >>
    /\ last' = [op |-> "addRoleClick"]
    /\ UNCHANGED <<roles, currentRole, currentPolicy, error, currentTab, isLoading,
                   isLoadingPolicy, isAddingRule, isEditable, deletingRule, editingRule,
                   inflight>>

\* FormModal onCancel (610)
AddRoleCancel ==
    /\ AddRoleModalShown
    /\ isAddingRole' = FALSE
    /\ issued' = << >>
    /\ toasts' = << >>
    /\ last' = [op |-> "addRoleCancel"]
    /\ UNCHANGED <<roles, currentRole, currentPolicy, error, currentTab, isLoading,
                   isLoadingPolicy, isAddingRule, errorData, isEditable, deletingRule,
                   editingRule, inflight>>

\* FormModal onChange (611): onNewDataChange(data)
AddRoleChange(data) ==
    LET errData == onNewDataChange(data, FALSE)
    IN  /\ AddRoleModalShown
        /\ errorData' = ErrorDataAfter(errData, FALSE)
        /\ issued' = << >>
        /\ toasts' = << >>
        /\ last' = [op |-> "onNewDataChange", data |-> data]
        /\ UNCHANGED <<roles, currentRole, currentPolicy, error, currentTab, isLoading,
                       isLoadingPolicy, isAddingRole, isAddingRule, isEditable,
                       deletingRule, editingRule, inflight>>

\* the body createNewRole sends (172, 174-178): a property that is undefined
\* is not serialised
CreateRoleData(data) ==
    [k \in DOMAIN data \cap {"description", "name", "displayName"} |-> data[k]]

\* the requests createNewRole issues (173-178)
CreateRoleCalls(data, errData) ==
    IF NoErrors(errData) THEN <<CreateRole(CreateRoleData(data))>> ELSE << >>

\* FormModal onSave (612): createNewRole(data)
AddRoleSave(data) ==
    LET errData == onNewDataChange(data, TRUE)
        calls == CreateRoleCalls(data, errData)
    IN  /\ AddRoleModalShown
        /\ CanIssue
        /\ errorData' = ErrorDataAfter(errData, TRUE)
        /\ inflight' = Issue(inflight, calls)
        /\ issued' = calls
        /\ toasts' = << >>
        /\ last' = [op |-> "createNewRole", data |-> data]
        /\ UNCHANGED <<roles, currentRole, currentPolicy, error, currentTab, isLoading,
                       isLoadingPolicy, isAddingRole, isAddingRule, isEditable,
                       deletingRule, editingRule>>

\* the response of createRole: the created role
CreateRoleResponse(req) ==
    [data |-> req.data]

\* variant: the created role is appended locally
RolesAfterCreateAppended(res) == Append(roles, res.data)

\* roles after the then of createNewRole (179-183): fetchRoles does not touch it
RolesAfterCreate(res) == roles

\* variant: the modal is left as it is
AddingRoleKept == isAddingRole

\* isAddingRole after the finally of createNewRole (190-192)
AddingRoleAfterCreate == FALSE

\* createNewRole, then + finally (179-183, 190-192), with fetchRoles (153-154)
CreateRoleResolved(req) ==
    LET res == CreateRoleResponse(req)
        calls == IF res.data # Undefined THEN <<GetRoles>> ELSE << >>
    IN  /\ roles' = RolesAfterCreate(res)
        /\ isLoading' = IF calls # << >> THEN TRUE ELSE isLoading
        /\ isAddingRole' = AddingRoleAfterCreate
        /\ inflight' = Issue(Resolve(req), calls)
        /\ issued' = calls
        /\ toasts' = << >>
        /\ last' = [op |-> "createRole.then"]
        /\ UNCHANGED <<currentRole, currentPolicy, error, currentTab, isLoadingPolicy,
                       isAddingRule, errorData, isEditable, deletingRule, editingRule>>

\* createNewRole, catch + finally (184-192)
CreateRoleRejected(req, err) ==
    /\ isAddingRole' = AddingRoleAfterCreate
    /\ inflight' = Resolve(req)
    /\ issued' = << >>
    /\ toasts' = <<err.message>>
    /\ last' = [op |-> "createRole.catch"]
    /\ UNCHANGED <<roles, currentRole, currentPolicy, error, currentTab, isLoading,
                   isLoadingPolicy, isAddingRule, errorData, isEditable, deletingRule,
                   editingRule>>

(***************************************************************************)
(* Description update.                                                     *)
(***************************************************************************)
\* onDescriptionEdit (126-128)
DescriptionEdit ==
    /\ RoleShown
    /\ isEditable' = TRUE
    /\ issued' = << >>
    /\ toasts' = << >>
    /\ last' = [op |-> "onDescriptionEdit"]
    /\ UNCHANGED <<roles, currentRole, currentPolicy, error, currentTab, isLoading,
                   isLoadingPolicy, isAddingRole, isAddingRule, errorData, deletingRule,
                   editingRule, inflight>>

\* onCancel (130-132)
DescriptionCancel ==
    /\ RoleShown
    /\ isEditable
    /\ isEditable' = FALSE
    /\ issued' = << >>
    /\ toasts' = << >>
    /\ last' = [op |-> "onCancel"]
    /\ UNCHANGED <<roles, currentRole, currentPolicy, error, currentTab, isLoading,
                   isLoadingPolicy, isAddingRole, isAddingRule, errorData, deletingRule,
                   editingRule, inflight>>

\* compare(currentRole, updatedRole) (219-220)
DescriptionPatch(updatedHTML) ==
    <<[op |-> "replace", path |-> "/description", value |-> updatedHTML]>>

\* variant: edit mode is left when the response arrives
EditableWhileUpdating(calls) == calls # << >>

\* isEditable after onDescriptionUpdate (229, 231): false on both branches
EditableAfterUpdate(calls) == FALSE

\* onDescriptionUpdate (217-233)
DescriptionUpdate(updatedHTML) ==
    LET calls == IF currentRole.description # updatedHTML
                 THEN <<UpdateRole(currentRole.id, DescriptionPatch(updatedHTML),
                                   Len(roles))>>
                 ELSE << >>
    IN  /\ RoleShown
        /\ isEditable
        /\ CanIssue
        /\ isEditable' = EditableAfterUpdate(calls)
        /\ inflight' = Issue(inflight, calls)
        /\ issued' = calls
        /\ toasts' = << >>
        /\ last' = [op |-> "onDescriptionUpdate"]
        /\ UNCHANGED <<roles, currentRole, currentPolicy, error, currentTab, isLoading,
                       isLoadingPolicy, isAddingRole, isAddingRule, errorData,
                       deletingRule, editingRule>>

\* the response of updateRole: the patched role
UpdateRoleResponse(req) ==
    [data |-> [id |-> req.id, name |-> RoleNameOfId(req.id),
               description |-> req.jsonPatch[1].value]]

\* onDescriptionUpdate, then (222-226), with fetchCurrentRole(name, true) (196-199)
UpdateRoleResolved(req) ==
    LET res == UpdateRoleResponse(req)
        calls == IF res.data # Undefined
                 THEN <<GetRoleByName(res.data.name, req.rolesLength)>>
                 ELSE << >>
    IN  /\ isLoading' = IF calls # << >> THEN TRUE ELSE isLoading
        /\ inflight' = Issue(Resolve(req), calls)
        /\ issued' = calls
        /\ toasts' = << >>
        /\ last' = [op |-> "updateRole.then"]
        /\ UNCHANGED <<roles, currentRole, currentPolicy, error, currentTab,
                       isLoadingPolicy, isAddingRole, isAddingRule, errorData,
                       isEditable, deletingRule, editingRule>>

\* the toasts shown when updateRole is rejected: the promise of 221-227 has no
\* rejection handler
UpdateRoleToasts(err) == << >>

\* onDescriptionUpdate, rejection of updateRole (221-227)
UpdateRoleRejected(req, err) ==
    /\ inflight' = Resolve(req)
    /\ issued' = << >>
    /\ toasts' = UpdateRoleToasts(err)
    /\ last' = [op |-> "updateRole.catch"]
    /\ UNCHANGED state

\* fetchCurrentRole, then + finally (200-205, 211-213), with fetchRoles
\* (153-154) and the effect on currentRole
GetRoleByNameResolved(req, description) ==
    LET res == [data |-> RoleObject(req.name, description, "other")]
        effect == PolicyEffect(currentRole, res.data, TRUE)
        calls == IF req.rolesLength <= 0 THEN <<GetRoles>> ELSE << >>
    IN  /\ currentRole' = res.data
        /\ isLoadingPolicy' = IF effect # << >> THEN TRUE ELSE isLoadingPolicy
        /\ isLoading' = FALSE
        /\ inflight' = Issue(Resolve(req), effect \o calls)
        /\ issued' = effect \o calls
        /\ toasts' = << >>
        /\ last' = [op |-> "getRoleByName.then"]
        /\ UNCHANGED <<roles, currentPolicy, error, currentTab, isAddingRole,
                       isAddingRule, errorData, isEditable, deletingRule, editingRule>>

\* err?.response?.data.code (207)
HasCode(err) == "response" \in DOMAIN err /\ "code" \in DOMAIN err.response.data

\* variant: a failure without a code clears the flag
ErrorAfterRoleByNameCleared(err) == IF HasCode(err) THEN ERROR404 ELSE ""

\* variant: every failure of the fetch by name is fatal
ErrorAfterRoleByNameAlways(err) == ERROR404

\* error after the catch of fetchCurrentRole (206-210)
ErrorAfterRoleByName(err) == IF HasCode(err) THEN ERROR404 ELSE error

\* fetchCurrentRole, catch + finally (206-213)
GetRoleByNameRejected(req, err) ==
    /\ error' = ErrorAfterRoleByName(err)
    /\ isLoading' = FALSE
    /\ inflight' = Resolve(req)
    /\ issued' = << >>
    /\ toasts' = << >>
    /\ last' = [op |-> "getRoleByName.catch", err |-> err]
    /\ UNCHANGED <<roles, currentRole, currentPolicy, currentTab, isLoadingPolicy,
                   isAddingRole, isAddingRule, errorData, isEditable, deletingRule,
                   editingRule>>

(***************************************************************************)
(* Policy rules.                                                           *)
(***************************************************************************)
\* the add-rule button (546-549)
AddRuleClick ==
    /\ RoleShown
    /\ errorData' = Undefined
    /\ isAddingRule' = TRUE
    /\ issued' = << >>
    /\ toasts' = << >>
    /\ last' = [op |-> "addRuleClick"]
    /\ UNCHANGED <<roles, currentRole, currentPolicy, error, currentTab, isLoading,
                   isLoadingPolicy, isAddingRole, isEditable, deletingRule, editingRule,
                   inflight>>

\* AddRuleModal onCancel (624)
AddRuleCancel ==
    /\ AddRuleModalShown
    /\ isAddingRule' = FALSE
    /\ issued' = << >>
    /\ toasts' = << >>
    /\ last' = [op |-> "addRuleCancel"]
    /\ UNCHANGED <<roles, currentRole, currentPolicy, error, currentTab, isLoading,
                   isLoadingPolicy, isAddingRole, errorData, isEditable, deletingRule,
                   editingRule, inflight>>

\* AddRuleModal onChange (625): validateRuleData(data)
AddRuleChange(data) ==
    LET errData == validateRuleData(data, FALSE)
    IN  /\ AddRuleModalShown
        /\ errorData' = ErrorDataAfter(errData, FALSE)
        /\ issued' = << >>
        /\ toasts' = << >>
        /\ last' = [op |-> "validateRuleData", data |-> data]
        /\ UNCHANGED <<roles, currentRole, currentPolicy, error, currentTab, isLoading,
                       isLoadingPolicy, isAddingRole, isAddingRule, isEditable,
                       deletingRule, editingRule, inflight>>

\* newRule of createRule (238-242)
NewRule(data) ==
    LET rule == [name |-> currentPolicy.name \o "-" \o data.operation,
                 operation |-> data.operation, allow |-> data.allow,
                 enabled |-> data.enabled]
    IN  IF currentRole = Undefined
        THEN rule   \* userRoleAttr: undefined is not serialised
        ELSE [k \in DOMAIN rule \cup {"userRoleAttr"} |->
                 IF k = "userRoleAttr" THEN currentRole.name ELSE rule[k]]

\* variant: the new rule is put first
CreateRulePolicyPrepended(data) ==
    [name |-> currentPolicy.name, policyType |-> currentPolicy.policyType,
     rules |-> <<NewRule(data)>> \o currentPolicy.rules]

\* updatedPolicy of createRule (243-247)
CreateRulePolicy(data) ==
    [name |-> currentPolicy.name, policyType |-> currentPolicy.policyType,
     rules |-> Append(currentPolicy.rules, NewRule(data))]

\* the requests createRule issues (237-249); spreading the rules of an
\* undefined policy throws before updatePolicy is called
CreateRuleCalls(data, errData) ==
    IF NoErrors(errData) /\ currentPolicy # Undefined
    THEN <<UpdatePolicy(CreateRulePolicy(data), "createRule", data.name)>>
    ELSE << >>

\* AddRuleModal onSave (626): createRule(data)
AddRuleSave(data) ==
    LET errData == validateRuleData(data, TRUE)
        calls == CreateRuleCalls(data, errData)
    IN  /\ AddRuleModalShown
        /\ CanIssue
        /\ currentPolicy # Undefined => Len(currentPolicy.rules) < MaxRules
        /\ errorData' = ErrorDataAfter(errData, TRUE)
        /\ inflight' = Issue(inflight, calls)
        /\ issued' = calls
        /\ toasts' = << >>
        /\ last' = [op |-> "createRule", data |-> data]
        /\ UNCHANGED <<roles, currentRole, currentPolicy, error, currentTab, isLoading,
                       isLoadingPolicy, isAddingRole, isAddingRule, isEditable,
                       deletingRule, editingRule>>

\* rules of onRuleUpdate (264-270)
UpdatedRules(rules, data) ==
    [k \in 1..Len(rules) |-> IF rules[k].name = data.name THEN data ELSE rules[k]]

\* updatedPolicy of onRuleUpdate (272-276)
RuleUpdatePolicy(data) ==
    [name |-> currentPolicy.name, policyType |-> currentPolicy.policyType,
     rules |-> UpdatedRules(currentPolicy.rules, data)]

\* the state changes of onRuleUpdate (263-277)
onRuleUpdate(data) ==
    LET calls == <<UpdatePolicy(RuleUpdatePolicy(data), "onRuleUpdate", data.name)>>
    IN  /\ inflight' = Issue(inflight, calls)
        /\ issued' = calls
        /\ toasts' = << >>
        /\ UNCHANGED state

\* what the rule switch passes to onRuleUpdate (444)
ToggledRule(rule) == [rule EXCEPT !.enabled = ~rule.enabled]

\* onClick of the rule switch of row i (443-445)
RuleSwitchClick(i) ==
    /\ RuleTableShown
    /\ CanIssue
    /\ onRuleUpdate(ToggledRule(currentPolicy.rules[i]))
    /\ last' = [op |-> "ruleSwitch"]

\* onClick of the edit icon of row i (451)
EditRuleClick(i) ==
    /\ RuleTableShown
    /\ editingRule' = [rule |-> currentPolicy.rules[i], state |-> TRUE]
    /\ issued' = << >>
    /\ toasts' = << >>
    /\ last' = [op |-> "editRuleClick"]
    /\ UNCHANGED <<roles, currentRole, currentPolicy, error, currentTab, isLoading,
                   isLoadingPolicy, isAddingRole, isAddingRule, errorData, isEditable,
                   deletingRule, inflight>>

\* edit modal onCancel (635-637)
EditRuleCancel ==
    /\ EditRuleModalShown
    /\ editingRule' = NoRule
    /\ issued' = << >>
    /\ toasts' = << >>
    /\ last' = [op |-> "editRuleCancel"]
    /\ UNCHANGED <<roles, currentRole, currentPolicy, error, currentTab, isLoading,
                   isLoadingPolicy, isAddingRole, isAddingRule, errorData, isEditable,
                   deletingRule, inflight>>

\* what the edit modal can hand to onSave: the rule it was opened with
\* (initialData, 634), with the access it lets the user choose
EditedRules(rule) == {[rule EXCEPT !.allow = ~rule.allow]}

\* edit modal onSave (638): onRuleUpdate(data)
EditRuleSave(data) ==
    /\ EditRuleModalShown
    /\ CanIssue
    /\ onRuleUpdate(data)
    /\ last' = [op |-> "editRuleSave"]

\* onClick of the delete icon of row i (461)
DeleteRuleClick(i) ==
    /\ RuleTableShown
    /\ deletingRule' = [rule |-> currentPolicy.rules[i], state |-> TRUE]
    /\ issued' = << >>
    /\ toasts' = << >>
    /\ last' = [op |-> "deleteRuleClick"]
    /\ UNCHANGED <<roles, currentRole, currentPolicy, error, currentTab, isLoading,
                   isLoadingPolicy, isAddingRole, isAddingRule, errorData, isEditable,
                   editingRule, inflight>>

\* confirmation modal onCancel (648-650)
DeleteRuleCancel ==
    /\ DeleteRuleModalShown
    /\ deletingRule' = NoRule
    /\ issued' = << >>
    /\ toasts' = << >>
    /\ last' = [op |-> "deleteRuleCancel"]
    /\ UNCHANGED <<roles, currentRole, currentPolicy, error, currentTab, isLoading,
                   isLoadingPolicy, isAddingRole, isAddingRule, errorData, isEditable,
                   editingRule, inflight>>

\* variant: the rules are filtered by name
RemainingRulesByName(rules, data) ==
    SelectSeq(rules, LAMBDA rule : rule.name # data.name)

\* rules of deleteRule (296-298)
RemainingRules(rules, data) ==
    SelectSeq(rules, LAMBDA rule : rule.operation # data.operation)

\* updatedPolicy of deleteRule (293-299)
DeleteRulePolicy(data) ==
    [name |-> currentPolicy.name, policyType |-> currentPolicy.policyType,
     rules |-> RemainingRules(currentPolicy.rules, data)]

\* confirmation modal onConfirm (651-653): deleteRule(deletingRule.rule)
DeleteRuleConfirm ==
    LET data == deletingRule.rule
        calls == <<UpdatePolicy(DeleteRulePolicy(data), "deleteRule", data.name)>>
    IN  /\ DeleteRuleModalShown
        /\ CanIssue
        /\ inflight' = Issue(inflight, calls)
        /\ issued' = calls
        /\ toasts' = << >>
        /\ last' = [op |-> "deleteRule"]
        /\ UNCHANGED state

\* the response of updatePolicy: the policy as stored
UpdatePolicyResponse(req) ==
    [data |-> PolicyObject(PolicyIdOfName(req.policy.name), req.policy.rules)]

\* variant: one cleanup, shared by the three handlers, resets every rule modal
RuleFinallyAll(handler) ==
    /\ isAddingRule' = FALSE
    /\ editingRule' = NoRule
    /\ deletingRule' = NoRule

\* the finally clauses of createRule (259), onRuleUpdate (289), deleteRule (310-312)
RuleFinally(handler) ==
    /\ isAddingRule' = IF handler = "createRule" THEN FALSE ELSE isAddingRule
    /\ editingRule' = IF handler = "onRuleUpdate" THEN NoRule ELSE editingRule
    /\ deletingRule' = IF handler = "deleteRule" THEN NoRule ELSE deletingRule

\* createRule / onRuleUpdate / deleteRule, then + finally (250-252, 278-280, 301-303)
UpdatePolicyResolved(req) ==
    LET res == UpdatePolicyResponse(req)
    IN  /\ currentPolicy' = res.data
        /\ RuleFinally(req.handler)
        /\ inflight' = Resolve(req)
        /\ issued' = << >>
        /\ toasts' = << >>
        /\ last' = [op |-> "updatePolicy.then", handler |-> req.handler]
        /\ UNCHANGED <<roles, currentRole, error, currentTab, isLoading,
                       isLoadingPolicy, isAddingRole, errorData, isEditable>>

\* err.response?.data?.message ?? fallback (256, 284-286, 307)
RuleToast(req, err) ==
    IF "response" \in DOMAIN err /\ "message" \in DOMAIN err.response.data
    THEN err.response.data.message
    ELSE CASE req.handler = "createRule" -> "Error while adding new rule"
           [] req.handler = "onRuleUpdate" ->
                "Error while updating " \o req.ruleName \o " rule"
           [] OTHER -> "Error while deleting rule"

\* createRule / onRuleUpdate / deleteRule, catch + finally (253-259, 281-289, 304-312)
UpdatePolicyRejected(req, err) ==
    /\ RuleFinally(req.handler)
    /\ inflight' = Resolve(req)
    /\ issued' = << >>
    /\ toasts' = <<RuleToast(req, err)>>
    /\ last' = [op |-> "updatePolicy.catch", handler |-> req.handler]
    /\ UNCHANGED <<roles, currentRole, currentPolicy, error, currentTab, isLoading,
                   isLoadingPolicy, isAddingRole, errorData, isEditable>>

(***************************************************************************)
(* Inputs of the explored behaviours.                                      *)
(***************************************************************************)
ValidRole == CandidateRole(<<"q", "a">>, <<"X">>)
BlankRole == CandidateRole(<< >>, <<"X">>)
PageRoles == {ValidRole, BlankRole}

\* The role list of the rule scenarios: one role, so one policy.
RulePageRoles == {<<RoleObject(admin, "d0", "list")>>}

PagePolicyRules(policyName) ==
    {<<RuleObject(policyName \o "-UpdateTags", "UpdateTags", TRUE, TRUE,
                  RoleNameOfPolicy(policyName))>>}

(***************************************************************************)
(* Spec: the six network calls.  Every handler that issues a request       *)
(* (fetchRoles, fetchPolicy through the effect, createNewRole,             *)
(* onDescriptionUpdate, fetchCurrentRole, onRuleUpdate through the rule     *)
(* switch) with the user events that lead to it, and both outcomes of       *)
(* every request, in any interleaving.                                     *)
(***************************************************************************)
Next ==
    \/ \E req \in Pending("getRoles") : \E data \in RoleLists :
            GetRolesResolved(req, data)
    \/ \E req \in Pending("getRoles") : GetRolesRejected(req)
    \/ \E i \in 1..Len(roles) : RoleClick(i)
    \/ \E req \in Pending("getPolicy") :
            \E rules \in PagePolicyRules(PolicyNameOfId(req.id)) :
                GetPolicyResolved(req, rules)
    \/ \E req \in Pending("getPolicy") : GetPolicyRejected(req)
    \/ AddRoleClick
    \/ AddRoleCancel
    \/ \E data \in PageRoles : AddRoleChange(data)
    \/ \E data \in PageRoles : AddRoleSave(data)
    \/ \E req \in Pending("createRole") : CreateRoleResolved(req)
    \/ \E req \in Pending("createRole") : \E err \in Errors :
            CreateRoleRejected(req, err)
    \/ DescriptionEdit
    \/ DescriptionCancel
    \/ \E updatedHTML \in Descriptions : DescriptionUpdate(updatedHTML)
    \/ \E req \in Pending("updateRole") : UpdateRoleResolved(req)
    \/ \E req \in Pending("updateRole") : \E err \in Errors :
            UpdateRoleRejected(req, err)
    \/ \E req \in Pending("getRoleByName") : \E description \in Descriptions :
            GetRoleByNameResolved(req, description)
    \/ \E req \in Pending("getRoleByName") : \E err \in Errors :
            GetRoleByNameRejected(req, err)
    \/ \E i \in 1..Len(DisplayedRules) : RuleSwitchClick(i)
    \/ \E req \in Pending("updatePolicy") : UpdatePolicyResolved(req)
    \/ \E req \in Pending("updatePolicy") : \E err \in Errors :
            UpdatePolicyRejected(req, err)

Spec == Init /\ [][Next]_vars

(***************************************************************************)
(* SpecForms: the add-role form with every candidate role: opening,        *)
(* editing, saving and cancelling it, role creation and the role-list      *)
(* fetches it leads to.                                                    *)
(***************************************************************************)
NextForms ==
    \/ \E req \in Pending("getRoles") : \E data \in RoleLists :
            GetRolesResolved(req, data)
    \/ \E req \in Pending("getRoles") : GetRolesRejected(req)
    \/ \E req \in Pending("getPolicy") :
            \E rules \in PagePolicyRules(PolicyNameOfId(req.id)) :
                GetPolicyResolved(req, rules)
    \/ AddRoleClick
    \/ AddRoleCancel
    \/ \E data \in CandidateRoles : AddRoleChange(data)
    \/ \E data \in CandidateRoles : AddRoleSave(data)
    \/ \E req \in Pending("createRole") : CreateRoleResolved(req)
    \/ \E req \in Pending("createRole") : \E err \in Errors :
            CreateRoleRejected(req, err)

SpecForms == Init /\ [][NextForms]_vars

(***************************************************************************)
(* SpecRules: the rules of the displayed policy, with every stored rule    *)
(* list: role selection, policy fetch, and rule creation, update (edit     *)
(* and enabled switch) and deletion, for a user who acts once the page     *)
(* has settled (no request pending).                                       *)
(***************************************************************************)
\* no request is pending
Settled == inflight = EmptyBag

NextRules ==
    \/ \E req \in Pending("getRoles") : \E data \in RulePageRoles :
            GetRolesResolved(req, data)
    \/ \E req \in Pending("getPolicy") :
            \E rules \in ServerRuleLists(PolicyNameOfId(req.id)) :
                GetPolicyResolved(req, rules)
    \/ \E req \in Pending("getPolicy") : GetPolicyRejected(req)
    \/ \E req \in Pending("updatePolicy") : UpdatePolicyResolved(req)
    \/ \E req \in Pending("updatePolicy") : \E err \in Errors :
            UpdatePolicyRejected(req, err)
    \/ Settled /\ \E i \in 1..Len(roles) : RoleClick(i)
    \/ Settled /\ \E tab \in {PolicyTab, UsersTab} : TabClick(tab)
    \/ Settled /\ AddRuleClick
    \/ Settled /\ AddRuleCancel
    \/ Settled /\ \E data \in CandidateRules : AddRuleChange(data)
    \/ Settled /\ \E data \in CandidateRules : AddRuleSave(data)
    \/ Settled /\ \E i \in 1..Len(DisplayedRules) : RuleSwitchClick(i)
    \/ Settled /\ \E i \in 1..Len(DisplayedRules) : EditRuleClick(i)
    \/ Settled /\ EditRuleCancel
    \/ Settled /\ editingRule.state
               /\ \E data \in EditedRules(editingRule.rule) : EditRuleSave(data)
    \/ Settled /\ \E i \in 1..Len(DisplayedRules) : DeleteRuleClick(i)
    \/ Settled /\ DeleteRuleCancel
    \/ Settled /\ DeleteRuleConfirm

SpecRules == Init /\ [][NextRules]_vars

(***************************************************************************)
(* Properties.                                                             *)
(***************************************************************************)

\* C1 (SpecForms): when a save attempt in the add-role form (createNewRole)
\* yields a non-empty validation mapping, for any candidate role and any state
\* of the page, the step issues no createRole request (it issues no request
\* at all).
C1_NoCreateOnInvalid ==
    (last.op = "createNewRole" /\ DOMAIN errorData # {}) =>
        /\ IssuedApi("createRole") = << >>
        /\ issued = << >>

\* a save attempt whose name collides, case-insensitively, with an existing role
C1_Witness ==
    /\ last.op = "createNewRole"
    /\ "name" \in DOMAIN errorData
    /\ errorData["name"] = "Name already exists"
    /\ issued = << >>

\* C2 (Spec): whenever a current role is set and a policy is displayed
\* (currentPolicy set, isLoadingPolicy false), currentPolicy is the policy
\* identified by currentRole.policy.id.
C2_DisplayedPolicyIsCurrentRolesPolicy ==
    (currentRole # Undefined /\ currentPolicy # Undefined /\ ~isLoadingPolicy) =>
        currentPolicy.id = currentRole.policy.id

\* C3 (Spec): every step that changes the current role to a role (the first
\* role of a fetched list, another role clicked in the list, the role returned
\* by a fetch by name) issues exactly one getPolicy request, with the new
\* current role's policy id; every other step issues no getPolicy request.
C3_OnePolicyFetchPerRoleChange ==
    [][LET fetches == SelectSeq(issued', LAMBDA r : r.api = "getPolicy")
           changed ==
               \/ last'.op = "getRoles.then" /\ currentRole' # Undefined
               \/ last'.op = "getRoleByName.then"
               \/ last'.op = "roleClick" /\ currentRole' # currentRole
       IN  IF changed
           THEN fetches = <<[api |-> "getPolicy", id |-> currentRole'.policy.id]>>
           ELSE fetches = << >>]_vars

\* a click on the second role of the list has fetched that role's policy
C3_Witness ==
    /\ last.op = "roleClick"
    /\ currentRole # Undefined
    /\ currentRole.name = dev
    /\ issued = <<[api |-> "getPolicy", id |-> "p2"]>>

\* C4 (Spec): no policy fetch is cancelled: every getPolicy response, of a
\* superseded fetch too, is stored in currentPolicy when it resolves, so the
\* response that resolves last is the one displayed.
C4_EveryPolicyResponseApplied ==
    [][last'.op = "getPolicy.then" =>
        \E req \in Pending("getPolicy") :
            /\ inflight' = inflight (-) SetToBag({req})
            /\ currentPolicy' # Undefined
            /\ currentPolicy'.id = req.id]_vars

\* no fetch is in flight and the policy displayed is not the current role's:
\* the response of the superseded fetch resolved last
C4_Witness ==
    /\ inflight = EmptyBag
    /\ last.op = "getPolicy.then"
    /\ currentRole # Undefined
    /\ currentPolicy # Undefined
    /\ currentPolicy.id # currentRole.policy.id

\* C5 (Spec): when one of the six network calls fails, exactly one error toast
\* is shown, roles, currentRole, currentPolicy and error are left as they
\* were, and the loading flag the call raised is cleared.
C5_FailureToastsOnceAndKeepsState ==
    [][last'.op \in {"getRoles.catch", "getRoleByName.catch", "getPolicy.catch",
                     "createRole.catch", "updateRole.catch", "updatePolicy.catch"} =>
        /\ Len(toasts') = 1
        /\ <<roles', currentRole', currentPolicy', error'>>
               = <<roles, currentRole, currentPolicy, error>>
        /\ last'.op \in {"getRoles.catch", "getRoleByName.catch"} => ~isLoading'
        /\ last'.op = "getPolicy.catch" => ~isLoadingPolicy']_vars

C7_ToggleFlipsOneRule ==
    [][last'.op = "ruleSwitch" =>
        \E i \in 1..Len(currentPolicy.rules) :
            /\ Len(issued') = 1
            /\ issued'[1].api = "updatePolicy"
            /\ issued'[1].policy.rules =
                   [k \in 1..Len(currentPolicy.rules) |->
                       IF k = i
                       THEN [currentPolicy.rules[k] EXCEPT
                                !.enabled = ~currentPolicy.rules[k].enabled]
                       ELSE currentPolicy.rules[k]]]_vars

\* C8 (SpecRules): confirming the deletion of a rule submits one updatePolicy
\* request whose rule list is currentPolicy.rules without every rule that has
\* the target rule's operation, whatever its name, the other rules unchanged
\* and in their original order.
C8_DeleteRemovesByOperation ==
    last.op = "deleteRule" =>
        LET rules == currentPolicy.rules
            target == deletingRule.rule
            kept == {k \in 1..Len(rules) : rules[k].operation # target.operation}
            \* the position in rules of the j-th kept rule
            pos(j) == CHOOSE k \in kept :
                          Cardinality({m \in kept : m <= k}) = j
        IN  /\ Len(issued) = 1
            /\ issued[1].api = "updatePolicy"
            /\ issued[1].policy.rules = [j \in 1..Cardinality(kept) |-> rules[pos(j)]]

\* two rules of different names share the operation of the deleted rule: both
\* are removed
C8_Witness ==
    /\ last.op = "deleteRule"
    /\ Len(currentPolicy.rules) = 2
    /\ currentPolicy.rules[1].name # currentPolicy.rules[2].name
    /\ currentPolicy.rules[1].operation = currentPolicy.rules[2].operation
    /\ deletingRule.rule = currentPolicy.rules[1]
    /\ issued[1].policy.rules = << >>

\* C9 (SpecForms): the response of a successful createRole issues one getRoles
\* request and leaves roles as it is; roles changes only when a getRoles
\* response replaces it with the returned list.
C9_RefetchNotAppend ==
    [][/\ last'.op = "createRole.then" =>
            /\ issued' = <<[api |-> "getRoles"]>>
            /\ roles' = roles
       /\ roles' # roles => last'.op = "getRoles.then"]_vars

\* a role was created while the list held roles: the list is refetched and
\* still holds what it held
C9_Witness ==
    /\ last.op = "createRole.then"
    /\ issued = <<[api |-> "getRoles"]>>
    /\ Len(roles) = 2
    /\ [api |-> "getRoles"] \in BagToSet(inflight)

\* C10 (SpecForms): once the createRole request of a save attempt has
\* completed, with success or with failure, isAddingRole is false.
C10_ModalClosedOnCompletion ==
    last.op \in {"createRole.then", "createRole.catch"} => ~isAddingRole

\* the create request failed and the modal is closed
C10_Witness ==
    /\ last.op = "createRole.catch"
    /\ toasts # << >>
    /\ ~isAddingRole

\* C11 (SpecRules): when the updatePolicy request of a rule operation
\* completes, with success or with failure, the modal state of that operation
\* is cleared (createRule: isAddingRule false; onRuleUpdate: editingRule reset;
\* deleteRule: deletingRule reset) and no other modal state changes.
C11_CompletionClearsOwnModal ==
    [][last'.op \in {"updatePolicy.then", "updatePolicy.catch"} =>
        LET reset == [rule |-> [undefined |-> TRUE], state |-> FALSE]
            h == last'.handler
        IN  /\ isAddingRule' = IF h = "createRule" THEN FALSE ELSE isAddingRule
            /\ editingRule' = IF h = "onRuleUpdate" THEN reset ELSE editingRule
            /\ deletingRule' = IF h = "deleteRule" THEN reset ELSE deletingRule
            /\ isAddingRole' = isAddingRole
            /\ isEditable' = isEditable]_vars

\* a rule update failed while the delete confirmation was open: editingRule
\* is reset and the confirmation stays open
C11_Witness ==
    /\ last.op = "updatePolicy.catch"
    /\ last.handler = "onRuleUpdate"
    /\ editingRule = [rule |-> [undefined |-> TRUE], state |-> FALSE]
    /\ deletingRule.state

\* C12 (Spec): onDescriptionUpdate leaves edit mode in the step in which it
\* runs, whether it issues an updateRole request (description changed) or
\* not (description unchanged); the response of updateRole, success or
\* failure, does not touch isEditable.
C12_EditModeLeftAtOnce ==
    [][/\ last'.op = "onDescriptionUpdate" =>
            /\ ~isEditable'
            /\ \/ issued' = << >>
               \/ /\ Len(issued') = 1
                  /\ issued'[1].api = "updateRole"
                  /\ issued'[1].jsonPatch[1].value # currentRole.description
       /\ last'.op \in {"updateRole.then", "updateRole.catch"} =>
            isEditable' = isEditable]_vars

\* the description was changed: the request is pending and edit mode is left
C12_Witness ==
    /\ last.op = "onDescriptionUpdate"
    /\ Len(issued) = 1
    /\ issued[1] \in BagToSet(inflight)
    /\ ~isEditable

\* C13 (SpecForms): role validation is gated.  Opening the add-role modal
\* clears the recorded error state; while none is recorded an unforced
\* validation (a field change) returns the empty mapping for every input and
\* leaves errorData undefined; a forced validation (a save attempt) records a
\* state, also when it finds no error; and while a state is recorded an
\* unforced validation executes the checks, recording what the forced
\* validation of the same input would find.  Only reopening the modal clears
\* the recorded state.
C13_ValidationGated ==
    [][/\ last'.op = "addRoleClick" => errorData' = [undefined |-> TRUE]
       /\ (last'.op = "onNewDataChange" /\ errorData = [undefined |-> TRUE]) =>
            /\ onNewDataChange(last'.data, FALSE) = << >>
            /\ errorData' = [undefined |-> TRUE]
       /\ (last'.op = "onNewDataChange" /\ errorData # [undefined |-> TRUE]) =>
            /\ errorData' # [undefined |-> TRUE]
            /\ errorData' = onNewDataChange(last'.data, TRUE)
       /\ last'.op = "createNewRole" =>
            /\ errorData' # [undefined |-> TRUE]
            /\ errorData' = onNewDataChange(last'.data, TRUE)
       /\ (errorData # [undefined |-> TRUE] /\ errorData' = [undefined |-> TRUE]) =>
            last'.op = "addRoleClick"]_vars

\* a save attempt found no error (its createRole request is pending), and the
\* field change that followed executed the checks and found one
C13_Witness ==
    /\ last.op = "onNewDataChange"
    /\ Pending("createRole") # {}
    /\ errorData # [undefined |-> TRUE]
    /\ DOMAIN errorData # {}

\* C14 (SpecForms): whenever role validation has executed (a save attempt, or
\* a field change while an error state was recorded), the recorded mapping is
\* the returned one; it has a "name" entry exactly when the name is blank
\* after trimming, or equals the name of an existing role up to case, or has a
\* length outside 1..128; and it has a "displayName" entry exactly when the
\* display name is missing, or blank after trimming, or has a length outside
\* 1..128.
C14_ValidationResult ==
    (last.op \in {"onNewDataChange", "createNewRole"}
     /\ errorData # [undefined |-> TRUE]) =>
        LET d == last.data
            blank(s) == \A i \in 1..Len(s) : s[i] = " "
            outside(s) == Len(s) < 1 \/ Len(s) > 128
            nameBad ==
                \/ blank(d.name)
                \/ \E i \in 1..Len(roles) : toLower(roles[i].name) = toLower(d.name)
                \/ outside(d.name)
            displayNameBad ==
                \/ "displayName" \notin DOMAIN d
                \/ blank(d.displayName)
                \/ outside(d.displayName)
        IN  /\ errorData = onNewDataChange(d, TRUE)
            /\ DOMAIN errorData \subseteq {"name", "displayName"}
            /\ "name" \in DOMAIN errorData <=> nameBad
            /\ "displayName" \in DOMAIN errorData <=> displayNameBad

\* with a role "admin" in the list, saving {name: "Admin", displayName: "X"}
\* yields "Name already exists" and no display name error
C14_Witness ==
    /\ last.op = "createNewRole"
    /\ last.data.name = <<"A", "d", "m", "i", "n">>
    /\ \E i \in 1..Len(roles) : roles[i].name = <<"a", "d", "m", "i", "n">>
    /\ DOMAIN errorData = {"name"}
    /\ errorData["name"] = "Name already exists"

\* C15 (SpecRules): rule validation requires an operation, with the gating of
\* role validation: a save attempt in the add-rule form with an empty
\* operation records an "operation" error and issues no request; a save
\* attempt with an operation records the empty mapping and issues exactly one
\* updatePolicy request; and an unforced rule validation returns the empty
\* mapping, leaving errorData undefined, while no error state is recorded.
C15_RuleValidation ==
    [][/\ (last'.op = "createRule" /\ last'.data.operation = "") =>
            /\ errorData' = [operation |-> "Operation is required."]
            /\ issued' = << >>
       /\ (last'.op = "createRule" /\ last'.data.operation # "") =>
            /\ errorData' = << >>
            /\ Len(issued') = 1
            /\ issued'[1].api = "updatePolicy"
       /\ (last'.op = "validateRuleData" /\ errorData = [undefined |-> TRUE]) =>
            /\ validateRuleData(last'.data, FALSE) = << >>
            /\ errorData' = [undefined |-> TRUE]]_vars

C17_FirstRoleAfterFetch ==
    last.op = "getRoles.then" =>
        /\ Len(roles) > 0 => currentRole = roles[1]
        /\ Len(roles) = 0 => currentRole = [undefined |-> TRUE]

\* the policy fetch of the role the user had selected is still pending, and
\* the first returned role is current
C17_Witness ==
    /\ last.op = "getRoles.then"
    /\ [api |-> "getPolicy", id |-> "p2"] \in BagToSet(inflight)
    /\ Len(roles) = 2
    /\ currentRole = roles[1]
    /\ currentRole.policy.id = "p1"

\* C18 (SpecRules): rule names stay pairwise distinct: whenever the rules of
\* the policy the page holds (the fetched policy, then each stored policy the
\* server returned) have pairwise distinct names, the policy submitted by a
\* rule creation, edit, enabled toggle or deletion has rules with pairwise
\* distinct names.
C18_RuleNamesStayUnique ==
    [][LET distinct(rules) ==
               \A j, k \in 1..Len(rules) : rules[j].name = rules[k].name => j = k
       IN  (/\ last'.op \in {"createRule", "ruleSwitch", "editRuleSave", "deleteRule"}
            /\ currentPolicy # [undefined |-> TRUE]
            /\ distinct(currentPolicy.rules)) =>
               \A k \in 1..Len(issued') : distinct(issued'[k].policy.rules)]_vars

\* C19 (Spec): the policy loading flag covers every pending policy fetch:
\* isLoadingPolicy is true in every state in which a getPolicy request is in
\* flight, and false in every state in which none is.
C19_LoadingFlagCoversPendingFetches ==
    isLoadingPolicy <=> (\E req \in BagToSet(inflight) : req.api = "getPolicy")

\* C20 (Spec): the page-level error flag is absorbing: once error is not
\* empty, no handler and no response makes it empty again, so the error
\* placeholder stays displayed, also after a later fetch succeeds.
C20_ErrorAbsorbing ==
    [][error # "" => (error' # "" /\ ~PageShown')]_vars

\* the role-list fetch succeeds after the flag was set: the flag is still set
C20_Witness ==
    /\ last.op = "getRoles.then"
    /\ error # ""
    /\ Len(roles) > 0

\* C21 (Spec): the current role stays consistent with the role list: in every
\* state with no request in flight and a current role set, roles has an entry
\* with the current role's name and currentRole equals it (the same fields
\* with the same values, the description included), so selecting the role
\* again from the list shows what is displayed now.
C21_CurrentRoleMatchesList ==
    (inflight = EmptyBag /\ currentRole # [undefined |-> TRUE]) =>
        \E i \in 1..Len(roles) :
            /\ roles[i].name = currentRole.name
            /\ roles[i] = [currentRole EXCEPT !.ref = roles[i].ref]

====
